---- MODULE Spec2Model ----
(***************************************************************************)
(* A model of the riscv-meta "wrangle" ISA model assembler: the match-spec *)
(* compiler (parseMatchSpec / rangeMask), the operand decode-step          *)
(* synthesizer (ParseArgDecodeSteps) with the decoding the generated Rust  *)
(* performs, the Standard algebra (ParseStandard, Base, Standards), and    *)
(* the loaders loadMajorOpcodes, loadArgs and loadOperations, and          *)
(* loadISAMeta, which runs the nine loaders and assembles the ISA.         *)
(*                                                                         *)
(* Representation.  A Go string is a sequence of one-character strings, so *)
(* that partition, ParseUint, ToUpper and slicing are computed character   *)
(* by character.  A bits32 / uint32 / uint64 value is the set of its set   *)
(* bit positions (TLC integers are too narrow for 2^32); |, & and the      *)
(* shifts are set operations and subtraction is a borrow-propagating       *)
(* subtraction modulo 2^32.  Numbers returned by strconv.ParseUint are     *)
(* naturals; the inputs are bounded so that they stay below 2^31.          *)
(***************************************************************************)
EXTENDS Integers, Sequences, FiniteSets, TLC

VARIABLES
    pc,        \* which routine is running / has finished
    field,     \* the [end, start, value] a well-formed token was written from
    rawSpec,   \* parseMatchSpec: its argument
    matchOut,  \* parseMatchSpec: its result [val, mask]
    desc,      \* the sub-fields the operand descriptor was written from
    raw,       \* ParseArgDecodeSteps: its argument (operand descriptor)
    steps,     \* ParseArgDecodeSteps: the returned []ArgDecodeStep
    inst,      \* the raw instruction word the generated decoder is applied to
    decoded,   \* the generated decoder's "raw" accumulator
    stdIn,     \* ParseStandard: its argument
    stdOut,    \* ParseStandard: its result [panic, std]
    line,      \* loaders: fields of the line the scanner returned last
    nread,     \* loaders: lines read from the current file
    majors,    \* loadMajorOpcodes: ret, later loadISAMeta's majorOpcodes
    codecs,    \* loadISAMeta's codecs table
    ret,       \* loadOperations: ret, later the ISA's Ops
    args,      \* loadISAMeta's args table (operands)
    got,       \* per resource whose loader has run: what its scanner delivered
    err        \* the resource named by the error loadISAMeta returned, or ""

vars == <<pc, field, rawSpec, matchOut, desc, raw, steps, inst, decoded, stdIn, stdOut,
          line, nread, majors, codecs, ret, args, got, err>>

----------------------------------------------------------------------------
(* Bounds of the model *)

\* bit positions written in match-spec tokens range over 0..MaxBitPos
MaxBitPos == 33
\* values written after "=" in generated match-spec tokens range over 0..MaxVal
MaxVal == 8
\* destination chunks in a generated split sub-descriptor
MaxChunks == 2
\* lines read from the opcode-majors file
MaxMajorLines == 2
\* lines read from the opcodes file
MaxOpLines == 2

----------------------------------------------------------------------------
(* Characters and strings *)

DigitChars == <<"0", "1", "2", "3", "4", "5", "6", "7", "8", "9">>
LowerChars == <<"a", "b", "c", "d", "e", "f", "g", "h", "i", "j", "k", "l", "m",
                "n", "o", "p", "q", "r", "s", "t", "u", "v", "w", "x", "y", "z">>
UpperChars == <<"A", "B", "C", "D", "E", "F", "G", "H", "I", "J", "K", "L", "M",
                "N", "O", "P", "Q", "R", "S", "T", "U", "V", "W", "X", "Y", "Z">>

Range(f) == {f[i] : i \in DOMAIN f}
IndexIn(f, c) == CHOOSE i \in DOMAIN f : f[i] = c

IsDigit(c) == c \in Range(DigitChars)
IsLower(c) == c \in Range(LowerChars)
IsUpper(c) == c \in Range(UpperChars)

\* the byte value of an ASCII character
Ord(c) ==
    IF IsDigit(c) THEN 47 + IndexIn(DigitChars, c)
    ELSE IF IsUpper(c) THEN 64 + IndexIn(UpperChars, c)
    ELSE IF IsLower(c) THEN 96 + IndexIn(LowerChars, c)
    ELSE IF c = "." THEN 46
    ELSE IF c = "=" THEN 61
    ELSE IF c = ":" THEN 58
    ELSE IF c = "_" THEN 95
    ELSE 63

\* strings.ToUpper, on one character and on a string
UpperChar(c) == IF IsLower(c) THEN UpperChars[IndexIn(LowerChars, c)] ELSE c
ToUpper(s) == [i \in 1..Len(s) |-> UpperChar(s[i])]

\* unicode.ToLower on one byte, as strconv uses it
LowerChar(c) == IF IsUpper(c) THEN LowerChars[IndexIn(UpperChars, c)] ELSE c

Min(S) == CHOOSE x \in S : \A y \in S : x <= y
Max(S) == CHOOSE x \in S : \A y \in S : x >= y

\* strings.Index, 1-based; 0 when sep does not occur
Index(s, sep) ==
    LET at == {i \in 1..(Len(s) - Len(sep) + 1) : SubSeq(s, i, i + Len(sep) - 1) = sep}
    IN IF at = {} THEN 0 ELSE Min(at)

HasPrefix(s, p) == Len(s) >= Len(p) /\ SubSeq(s, 1, Len(p)) = p

\* partition(s, sep) (l, r string)
partition(s, sep) ==
    LET idx == Index(s, sep)
    IN IF idx = 0 THEN <<s, <<>>>>
       ELSE <<SubSeq(s, 1, idx - 1), SubSeq(s, idx + Len(sep), Len(s))>>

----------------------------------------------------------------------------
(* strconv.ParseUint *)

\* the value of a digit character in bases up to 16; 99 for any other character
DigitValue(c) ==
    IF IsDigit(c) THEN IndexIn(DigitChars, c) - 1
    ELSE IF LowerChar(c) \in {"a", "b", "c", "d", "e", "f"}
         THEN 9 + IndexIn(LowerChars, LowerChar(c))
    ELSE 99

RECURSIVE ParseDigits(_, _, _)
\* the digit loop of ParseUint: [err, n]
ParseDigits(s, base, acc) ==
    IF s = <<>> THEN [err |-> FALSE, n |-> acc]
    ELSE IF DigitValue(Head(s)) >= base THEN [err |-> TRUE, n |-> 0]
    ELSE ParseDigits(Tail(s), base, acc * base + DigitValue(Head(s)))

\* strconv.ParseUint(s, base, bitSize) for base 10 and base 0 (prefix-selected)
ParseUint(s, base) ==
    IF s = <<>> THEN [err |-> TRUE, n |-> 0]
    ELSE IF base # 0 THEN ParseDigits(s, base, 0)
    ELSE IF Head(s) # "0" THEN ParseDigits(s, 10, 0)
    ELSE IF Len(s) >= 3 /\ LowerChar(s[2]) = "b" THEN ParseDigits(SubSeq(s, 3, Len(s)), 2, 0)
    ELSE IF Len(s) >= 3 /\ LowerChar(s[2]) = "o" THEN ParseDigits(SubSeq(s, 3, Len(s)), 8, 0)
    ELSE IF Len(s) >= 3 /\ LowerChar(s[2]) = "x" THEN ParseDigits(SubSeq(s, 3, Len(s)), 16, 0)
    ELSE ParseDigits(Tail(s), 8, 0)

RECURSIVE DecStr(_)
\* the decimal numeral of n, as the spec files write bit positions and values
DecStr(n) ==
    IF n < 10 THEN <<DigitChars[n + 1]>>
    ELSE DecStr(n \div 10) \o <<DigitChars[(n % 10) + 1]>>

----------------------------------------------------------------------------
(* Fixed-width words as sets of bit positions *)

\* type bits32 uint32
Width32 == 32
\* type bits8 uint8
Width8 == 8
\* uint and uint64
Width64 == 64

Word32 == 0..(Width32 - 1)

\* the bits of a natural below 2^31
BitsOf(n) == {i \in 0..30 : (n \div (2 ^ i)) % 2 = 1}

\* x << n in an unsigned type of the given width
Shl(x, n, width) == {b + n : b \in x} \cap (0..(width - 1))
\* x >> n
Shr(x, n) == {b - n : b \in x} \cap Nat
\* conversion to a narrower unsigned type
Trunc(x, width) == x \cap (0..(width - 1))

\* a borrow enters bit i of a - b exactly when (a mod 2^i) < (b mod 2^i)
BorrowInto(a, b, i) ==
    LET d == {j \in 0..(i - 1) : (j \in a) # (j \in b)}
    IN d # {} /\ Max(d) \in b

\* a - b in uint32 (wrapping)
Sub32(a, b) ==
    {i \in Word32 : ((i \in a) # (i \in b)) # BorrowInto(a, b, i)}

----------------------------------------------------------------------------
(* The bit-range/value compiler *)

\* rangeMask with the top bit left out of the range
rangeMask_exclusiveTop(top, bottom) ==
    Sub32(Shl({0}, top, Width32), Shl({0}, bottom, Width32))

\* rangeMask(top, bottom uint) bits32: the untyped constants take the type
\* bits32 of the conversion, so both shifts and the subtraction are 32-bit
rangeMask(top, bottom) ==
    Sub32(Shl({0}, top + 1, Width32), Shl({0}, bottom, Width32))

\* the (0, 0) every error path of parseMatchSpec returns
NoMatch == [val |-> {}, mask |-> {}]

\* parseMatchSpec placing the value at the end bit instead of the start bit
parseMatchSpec_shiftByEnd(spec) ==
    LET eq    == partition(spec, <<"=">>)
        want  == ParseUint(eq[2], 0)
        rng   == partition(eq[1], <<".", ".">>)
        start == ParseUint(rng[2], 10)
        end   == ParseUint(rng[1], 10)
    IN IF want.err \/ start.err \/ end.err THEN NoMatch
       ELSE [val  |-> Trunc(Shl(BitsOf(want.n), end.n, Width64), Width32),
             mask |-> rangeMask(end.n, start.n)]

\* parseMatchSpec(rawSpec string) (val uint32, mask uint32)
parseMatchSpec(spec) ==
    LET eq    == partition(spec, <<"=">>)
        want  == ParseUint(eq[2], 0)
        rng   == partition(eq[1], <<".", ".">>)
        start == ParseUint(rng[2], 10)
        end   == ParseUint(rng[1], 10)
    IN IF want.err \/ start.err \/ end.err THEN NoMatch
       ELSE [val  |-> Trunc(Shl(BitsOf(want.n), start.n, Width64), Width32),
             mask |-> rangeMask(end.n, start.n)]

----------------------------------------------------------------------------
(* The operand decode-step synthesizer *)

(* A uint64 of ParseArgDecodeSteps is modelled by an integer taken modulo    *)
(* 2^64: a negative n stands for 2^64 + n, the value an unsigned subtraction *)
(* wraps to.  int(x) of such a value is n itself, and a shift count that     *)
(* wrapped is at least 2^32, so 1 << x is 0 in bits32, as Shl gives.         *)

RECURSIVE Split(_, _)
\* strings.Split(s, sep) for a one-character separator
Split(s, sep) ==
    LET idx == Index(s, <<sep>>)
    IN IF idx = 0 THEN <<s>>
       ELSE <<SubSeq(s, 1, idx - 1)>> \o Split(SubSeq(s, idx + 1, Len(s)), sep)

\* the step of a simple field with the top bit as the shift
ContigStep_shiftTop(top, bottom) ==
    [Mask |-> rangeMask(top, bottom), RightShift |-> top]

\* the step appended for a simple field "top:bottom"
ContigStep(top, bottom) ==
    [Mask |-> rangeMask(top, bottom), RightShift |-> bottom]

\* the step appended for the destination chunk destTop:destBottom of a split
\* field whose next unconsumed source bit is srcTop
SplitStep(srcTop, destTop, destBottom) ==
    LET width     == destTop - destBottom
        srcBottom == srcTop - width
    IN [Mask |-> rangeMask(srcTop, srcBottom), RightShift |-> srcBottom - destTop]

RECURSIVE SplitSteps(_, _)
\* the loop over rawConcats: the steps of the chunks, srcTop moving down
SplitSteps(rawConcats, srcTop) ==
    IF rawConcats = <<>> THEN <<>>
    ELSE LET pr         == partition(Head(rawConcats), <<":">>)
             rawDestTop == pr[1]
             rawDestBot == IF pr[2] = <<>> THEN pr[1] ELSE pr[2]
             destTop    == ParseUint(rawDestTop, 10)
             destBottom == ParseUint(rawDestBot, 10)
         IN IF destTop.err \/ destBottom.err
            THEN SplitSteps(Tail(rawConcats), srcTop)
            ELSE <<SplitStep(srcTop, destTop.n, destBottom.n)>>
                 \o SplitSteps(Tail(rawConcats),
                               srcTop - ((destTop.n - destBottom.n) + 1))

\* one iteration of the loop over parts: [panic, steps]
PartSteps(rawPart) ==
    IF Index(rawPart, <<"[">>) = 0
    THEN LET pr        == partition(rawPart, <<":">>)
             rawTop    == pr[1]
             rawBottom == IF pr[2] = <<>> THEN pr[1] ELSE pr[2]
             top       == ParseUint(rawTop, 10)
             bottom    == ParseUint(rawBottom, 10)
         IN IF top.err \/ bottom.err THEN [panic |-> FALSE, steps |-> <<>>]
            ELSE [panic |-> FALSE, steps |-> <<ContigStep(top.n, bottom.n)>>]
    ELSE LET pr       == partition(rawPart, <<"[">>)
             rawSrc   == pr[1]
             rawDests == pr[2]
         IN IF rawDests = <<>>
            THEN \* rawDests[:len(rawDests)-1] with len 0: slice bounds out of range
                 [panic |-> TRUE, steps |-> <<>>]
            ELSE LET trimmed == SubSeq(rawDests, 1, Len(rawDests) - 1)
                     srcTop  == ParseUint(partition(rawSrc, <<":">>)[1], 10)
                 IN IF srcTop.err THEN [panic |-> FALSE, steps |-> <<>>]
                    ELSE [panic |-> FALSE,
                          steps |-> SplitSteps(Split(trimmed, "|"), srcTop.n)]

RECURSIVE PartsSteps(_)
\* the loop over parts
PartsSteps(parts) ==
    IF parts = <<>> THEN [panic |-> FALSE, steps |-> <<>>]
    ELSE LET first == PartSteps(Head(parts))
             rest  == PartsSteps(Tail(parts))
         IN IF first.panic \/ rest.panic THEN [panic |-> TRUE, steps |-> <<>>]
            ELSE [panic |-> FALSE, steps |-> first.steps \o rest.steps]

\* ParseArgDecodeSteps(raw string) []ArgDecodeStep
ParseArgDecodeSteps(rawArg) == PartsSteps(Split(rawArg, ","))

\* one "raw |= ..." statement of the generated decoder, on a u32
ApplyStep(step, word) ==
    IF step.RightShift = 0 THEN word \cap step.Mask
    ELSE IF step.RightShift < 0 THEN Shl(word \cap step.Mask, -step.RightShift, Width32)
    ELSE Shr(word \cap step.Mask, step.RightShift)

\* the generated decoder: raw starts at 0 and every step is OR-ed in
Decode(stepList, word) ==
    UNION {ApplyStep(stepList[i], word) : i \in DOMAIN stepList}

----------------------------------------------------------------------------
(* Operand descriptors fed to ParseArgDecodeSteps *)

\* "top:bottom", or the bare "top" when bare
FmtRange(r) ==
    IF r.bare THEN DecStr(r.top) ELSE DecStr(r.top) \o <<":">> \o DecStr(r.bottom)

RECURSIVE FmtChunks(_)
\* "d1top:d1bot|d2top:d2bot|..."
FmtChunks(chunks) ==
    IF Len(chunks) = 1 THEN FmtRange(chunks[1])
    ELSE FmtRange(chunks[1]) \o <<"|">> \o FmtChunks(Tail(chunks))

\* a sub-descriptor: contiguous when it has no chunks, else "src[chunks]"
FmtPart(part) ==
    IF part.chunks = <<>> THEN FmtRange(part.src)
    ELSE FmtRange(part.src) \o <<"[">> \o FmtChunks(part.chunks) \o <<"]">>

RECURSIVE FmtDesc(_)
\* the comma-separated descriptor
FmtDesc(parts) ==
    IF Len(parts) = 1 THEN FmtPart(parts[1])
    ELSE FmtPart(parts[1]) \o <<",">> \o FmtDesc(Tail(parts))

Rng(top, bottom) == [top |-> top, bottom |-> bottom, bare |-> FALSE]
Bare(n) == [top |-> n, bottom |-> n, bare |-> TRUE]
Contig(src) == [src |-> src, chunks |-> <<>>]
SplitPart(src, chunks) == [src |-> src, chunks |-> chunks]

\* every contiguous field inside the word, written "top:bottom" or bare "n"
ContigDescs ==
    {<<Contig(Rng(p[1], p[2]))>> : p \in {q \in Word32 \X Word32 : q[2] <= q[1]}} \cup
    {<<Contig(Bare(n))>> : n \in Word32}

\* destination chunks the generated split descriptors are made of
ChunkPool == {Bare(12), Rng(10, 5), Rng(4, 1), Bare(11), Rng(4, 0), Bare(0)}

RECURSIVE ChunkSeqs(_)
ChunkSeqs(n) ==
    IF n = 0 THEN {<<>>}
    ELSE LET shorter == ChunkSeqs(n - 1)
         IN shorter \cup {Append(cs, c) : cs \in {x \in shorter : Len(x) = n - 1}, c \in ChunkPool}

GeneratedSplitDescs ==
    {<<SplitPart(src, cs)>> : src \in {Rng(31, 25), Rng(11, 7), Bare(12)},
                              cs \in ChunkSeqs(MaxChunks) \ {<<>>}}

\* split descriptors over the four-bit source field 3:0 and one chunk: the
\* chunk takes fewer source bits than the field has ("3[12]"), all of them
\* ("3[4:1]"), or more ("3[4:0]", "3[10:5]")
NarrowSplitDescs == {<<SplitPart(Bare(3), <<c>>)>> : c \in ChunkPool}

\* operand encodings of the RISC-V operands file (branch, store, jump and
\* compressed-jump immediates)
RiscvDescs ==
    { <<SplitPart(Rng(31, 25), <<Bare(12), Rng(10, 5)>>),
        SplitPart(Rng(11, 7), <<Rng(4, 1), Bare(11)>>)>>,
      <<SplitPart(Rng(31, 25), <<Rng(11, 5)>>), SplitPart(Rng(11, 7), <<Rng(4, 0)>>)>>,
      <<SplitPart(Rng(31, 12), <<Bare(20), Rng(10, 1), Bare(11), Rng(19, 12)>>)>>,
      <<SplitPart(Bare(12), <<Bare(5)>>), SplitPart(Rng(6, 2), <<Rng(4, 0)>>)>>,
      <<SplitPart(Rng(12, 2), <<Bare(11), Bare(4), Rng(9, 8), Bare(10), Bare(6),
                                Bare(7), Rng(3, 1), Bare(5)>>)>>,
      <<Contig(Rng(11, 7)), Contig(Rng(19, 15))>> }

\* descriptors that are empty, non-numeric or cut short
MalformedDescs ==
    { <<>>,
      <<"x", ":", "3">>,
      <<"5", ":", "x">>,
      <<"x", ":", "2", "5", "[", "1", "2", "]">>,
      <<"3", "1", ":", "2", "5", "[", "x", "|", "1", "0", ":", "5", "]">>,
      <<"3", "1", ":", "2", "5", "[">>,
      <<"7", ":", "3", ",", "y">> }

\* the instruction words the generated decoder is applied to: each single
\* bit, the zero word and the all-ones word
InstWords == {{i} : i \in Word32} \cup {{}, Word32}

----------------------------------------------------------------------------
(* Match-spec tokens fed to parseMatchSpec *)

\* the token "<end>..<start>=<value>"
MkSpec(end, start, value) ==
    DecStr(end) \o <<".", ".">> \o DecStr(start) \o <<"=">> \o DecStr(value)

\* "6..2=0x1b": a value written in hexadecimal
HexSpec == <<"6", ".", ".", "2", "=", "0", "x", "1", "b">>
\* "4..2=011": a leading 0 selects octal
OctalSpec == <<"4", ".", ".", "2", "=", "0", "1", "1">>

\* tokens with a non-numeric start, end or value, or without ".." or "="
MalformedSpecs ==
    { <<"7", ".", ".", "x", "=", "1">>,
      <<"x", ".", ".", "0", "=", "1">>,
      <<"3", ".", ".", "0", "=">>,
      <<"3", ".", ".", "0", "=", "z">>,
      <<"3", ".", ".", "0", "=", "0", "x">>,
      <<"3", ".", ".", "0", "=", "0", "9">>,
      <<"2", "=", "3">>,
      <<"3", ".", ".", "0">>,
      <<"r", "d">> }

\* the field of a token that is not of the form "<end>..<start>=<decimal>"
NoField == [end |-> -1, start |-> -1, value |-> -1]

----------------------------------------------------------------------------
(* The Standard/extension algebra *)

\* Invalid = Standard(0)
Invalid == 0
\* RV32 Size = 32
RV32 == 32
\* RV64 Size = 64
RV64 == 64
\* RV128 Size = 128
RV128 == 128
\* a Standard keeps its Size in the low byte and its Extension above it
ByteRange == 256

\* Standard(uint16(size) | uint16(ext)<<8)
MakeStandard(size, ext) == size + ByteRange * ext

\* func (s Standard) Base() Standard with the extension kept
Base_keepExtension(s) == s

\* func (s Standard) Base() Standard
Base(s) == s % ByteRange

\* func (s Standard) Extension() Extension
Extension(s) == s \div ByteRange

\* func (ss Standards) Has(s Standard) bool
Has(ss, s) == s \in ss

\* func (ss Standards) Add(s Standard)
Add(ss, s) == ss \cup {s}

\* func ParseStandard(s string) Standard: [panic, std]
ParseStandard(s) ==
    IF ~HasPrefix(s, <<"r", "v">>) THEN [panic |-> FALSE, std |-> Invalid]
    ELSE IF Len(s) - 1 < 2
    THEN \* s[2 : len(s)-1] with len(s) = 2: slice bounds out of range
         [panic |-> TRUE, std |-> Invalid]
    ELSE LET bitsStr == SubSeq(s, 3, Len(s) - 1)
             ext     == Ord(UpperChar(s[Len(s)]))
         IN IF bitsStr = <<"3", "2">> THEN [panic |-> FALSE, std |-> MakeStandard(RV32, ext)]
            ELSE IF bitsStr = <<"6", "4">> THEN [panic |-> FALSE, std |-> MakeStandard(RV64, ext)]
            ELSE IF bitsStr = <<"1", "2", "8">> THEN [panic |-> FALSE, std |-> MakeStandard(RV128, ext)]
            ELSE [panic |-> FALSE, std |-> Invalid]

----------------------------------------------------------------------------
(* Standards tokens fed to ParseStandard *)

\* the extension letters I, M, A, S, F, D, Q, C
ExtLetters == {"I", "M", "A", "S", "F", "D", "Q", "C"}

SizeTexts == {<<"3", "2">>, <<"6", "4">>, <<"1", "2", "8">>, <<"1", "6">>, <<"3">>, <<>>}
LastTexts ==
    {<<c>> : c \in {"i", "m", "a", "s", "f", "d", "q", "c", "I", "C", "x", "2", "_"}}
    \cup {<<>>}

\* "rv" followed by a size text and at most one more character, and some
\* tokens without the prefix
StdInputs ==
    {<<"r", "v">> \o sz \o last : sz \in SizeTexts, last \in LastTexts}
    \cup {<<"b", "o", "g", "u", "s">>, <<"R", "V", "3", "2", "I">>, <<"r">>, <<"x", "3", "2", "i">>}

----------------------------------------------------------------------------
(* The ISA model assembler: loadMajorOpcodes, loadCodecs, loadOperations *)

(* A line is the list of its fields, strings.Fields(trimComments(sc.Text())). *)
(* The identifier renderings FuncName / TypeName and the FullName,            *)
(* Description and Pseudocode texts of an entity are left out: they are       *)
(* copied from the name and from the string tables and nothing reads them     *)
(* during assembly.  A pointer into a table is the entry it points to, with   *)
(* nil a marked entry; entries are never written after they are stored.       *)

\* an empty Go map, also a nil one
EmptyMap == [k \in {} |-> {}]

\* m with m[key] = value
MapPut(m, key, value) ==
    [k \in (DOMAIN m) \cup {key} |-> IF k = key THEN value ELSE m[k]]

\* (*MajorOpcode)(nil)
NilMajor == [nil |-> TRUE, Name |-> <<>>, Num |-> {}]
\* (*Codec)(nil)
NilCodec == [nil |-> TRUE, Name |-> <<>>, Operands |-> <<>>]

\* &MajorOpcode{...} with Num left 0
NewMajorOpcode_zeroNum(name) == [nil |-> FALSE, Name |-> name, Num |-> {}]

\* &MajorOpcode{Name: name, ..., Num: 0b11}
NewMajorOpcode(name) == [nil |-> FALSE, Name |-> name, Num |-> {0, 1}]

RECURSIVE MajorNum(_, _)
\* the loop "oc.Num |= bits8(v)" over the fields before the name
MajorNum(fields, num) ==
    IF fields = <<>> THEN num
    ELSE MajorNum(Tail(fields), num \cup Trunc(parseMatchSpec(Head(fields)).val, Width8))

\* the scan loop's body without the upper-case filter on the name
MajorsAfterLine_anyCase(m, fields) ==
    IF Len(fields) < 2 THEN m
    ELSE LET name == fields[Len(fields)]
             rest == SubSeq(fields, 1, Len(fields) - 1)
             oc   == [NewMajorOpcode(name) EXCEPT !.Num = MajorNum(rest, @)]
         IN MapPut(m, oc.Num, oc)

\* the body of loadMajorOpcodes's scan loop: ret after the line
MajorsAfterLine(m, fields) ==
    IF Len(fields) < 2 THEN m
    ELSE LET name == fields[Len(fields)]
             rest == SubSeq(fields, 1, Len(fields) - 1)
         IN IF ToUpper(name) # name THEN m
            ELSE LET oc == [NewMajorOpcode(name) EXCEPT !.Num = MajorNum(rest, @)]
                 IN MapPut(m, oc.Num, oc)

\* the body of loadCodecs's scan loop: ret after the line
CodecsAfterLine(m, fields) ==
    IF Len(fields) < 2 THEN m
    ELSE MapPut(m, fields[1],
                [nil |-> FALSE, Name |-> fields[1],
                 Operands |-> SubSeq(fields, 3, Len(fields))])

RECURSIVE CodecsOfFile(_, _)
\* loadCodecs: the scan loop over the lines of the file
CodecsOfFile(lines, m) ==
    IF lines = <<>> THEN m
    ELSE CodecsOfFile(Tail(lines), CodecsAfterLine(m, Head(lines)))

RECURSIVE ScanMatches_noBreak(_, _, _, _, _)
\* the matching loop going on over the fields that follow the codec name
ScanMatches_noBreak(fields, codecTab, codec, test, mask) ==
    IF fields = <<>> THEN [codec |-> codec, test |-> test, mask |-> mask, rest |-> <<>>]
    ELSE LET rawMatch == Head(fields)
         IN IF rawMatch \in DOMAIN codecTab
            THEN ScanMatches_noBreak(Tail(fields), codecTab, codecTab[rawMatch], test, mask)
            ELSE IF ~IsDigit(rawMatch[1])
            THEN ScanMatches_noBreak(Tail(fields), codecTab, codec, test, mask)
            ELSE LET m == parseMatchSpec(rawMatch)
                 IN ScanMatches_noBreak(Tail(fields), codecTab, codec,
                                        test \cup m.val, mask \cup m.mask)

RECURSIVE ScanMatches_digitFirst(_, _, _, _, _)
\* the matching loop reading a token that starts with a digit as a
\* range/value spec before looking it up in the codec table
ScanMatches_digitFirst(fields, codecTab, codec, test, mask) ==
    IF fields = <<>> THEN [codec |-> codec, test |-> test, mask |-> mask, rest |-> <<>>]
    ELSE LET rawMatch == Head(fields)
         IN IF IsDigit(rawMatch[1])
            THEN LET m == parseMatchSpec(rawMatch)
                 IN ScanMatches_digitFirst(Tail(fields), codecTab, codec,
                                           test \cup m.val, mask \cup m.mask)
            ELSE IF rawMatch \in DOMAIN codecTab
            THEN [codec |-> codecTab[rawMatch], test |-> test, mask |-> mask,
                  rest |-> Tail(fields)]
            ELSE ScanMatches_digitFirst(Tail(fields), codecTab, codec, test, mask)

RECURSIVE ScanMatches(_, _, _, _, _)
\* the loop "for len(fields) > 0" of loadOperations: the codec found (or
\* nil), the accumulated Test and Mask, and the fields left after it
ScanMatches(fields, codecTab, codec, test, mask) ==
    IF fields = <<>> THEN [codec |-> codec, test |-> test, mask |-> mask, rest |-> <<>>]
    ELSE LET rawMatch == Head(fields)
         IN IF rawMatch \in DOMAIN codecTab
            THEN [codec |-> codecTab[rawMatch], test |-> test, mask |-> mask,
                  rest |-> Tail(fields)]
            ELSE IF ~IsDigit(rawMatch[1])
            THEN ScanMatches(Tail(fields), codecTab, codec, test, mask)
            ELSE LET m == parseMatchSpec(rawMatch)
                 IN ScanMatches(Tail(fields), codecTab, codec,
                                test \cup m.val, mask \cup m.mask)

\* the low seven bits, 0b1111111
MajorBits == 0..6

\* the major-opcode lookup made whatever the Mask covers
MajorOf_noMaskCheck(test, mask, majorsTab) ==
    IF (test \cap MajorBits) \in DOMAIN majorsTab
    THEN majorsTab[test \cap MajorBits]
    ELSE NilMajor

\* op.MajorOpcode after "if (op.Mask & 0b1111111) == 0b1111111 { ... }":
\* majors[key] is nil when the table has no such key
MajorOf(test, mask, majorsTab) ==
    IF (mask \cap MajorBits) = MajorBits
    THEN IF Trunc(test \cap MajorBits, Width8) \in DOMAIN majorsTab
         THEN majorsTab[Trunc(test \cap MajorBits, Width8)]
         ELSE NilMajor
    ELSE NilMajor

RECURSIVE AddStandards(_, _)
\* the loop over the remaining fields: [panic, ss]
AddStandards(fields, ss) ==
    IF fields = <<>> THEN [panic |-> FALSE, ss |-> ss]
    ELSE LET r == ParseStandard(Head(fields))
         IN IF r.panic THEN [panic |-> TRUE, ss |-> ss]
            ELSE AddStandards(Tail(fields), Add(Add(ss, r.std), Base(r.std)))

\* the body of loadOperations's scan loop: the line is skipped, or it
\* panics, or it appends op
OperationOfLine(fields, majorsTab, codecTab) ==
    IF Len(fields) < 3 THEN [kind |-> "skip"]
    ELSE LET name == fields[1]
             scan == ScanMatches(Tail(fields), codecTab, NilCodec, {}, {})
             stds == AddStandards(scan.rest, {})
         IN IF scan.codec.nil THEN [kind |-> "skip"]
            ELSE IF stds.panic THEN [kind |-> "panic"]
            ELSE [kind |-> "op",
                  op |-> [Name        |-> name,
                          MajorOpcode |-> MajorOf(scan.test, scan.mask, majorsTab),
                          Codec       |-> scan.codec,
                          Test        |-> scan.test,
                          Mask        |-> scan.mask,
                          Standards   |-> stds.ss]]

RECURSIVE StrLess(_, _)
\* a < b on Go strings: byte-wise lexicographic order
StrLess(a, b) ==
    IF b = <<>> THEN FALSE
    ELSE IF a = <<>> THEN TRUE
    ELSE IF Ord(Head(a)) # Ord(Head(b)) THEN Ord(Head(a)) < Ord(Head(b))
    ELSE StrLess(Tail(a), Tail(b))

\* the orders sort.Slice may leave ops in: every arrangement of the same
\* elements with no element before one of a smaller Name (sort.Slice is not
\* a stable sort, so elements of equal Name may come out in any order)
SortedByName(ops) ==
    LET n     == Len(ops)
        perms == {f \in [1..n -> 1..n] : \A i, j \in 1..n : i # j => f[i] # f[j]}
        lists == {[i \in 1..n |-> ops[f[i]]] : f \in perms}
    IN {l \in lists : \A i, j \in 1..n : i < j => ~StrLess(l[j].Name, l[i].Name)}

RECURSIVE MajorsOfFile(_, _)
\* loadMajorOpcodes: the scan loop over the lines the scanner delivers
MajorsOfFile(lines, m) ==
    IF lines = <<>> THEN m
    ELSE MajorsOfFile(Tail(lines), MajorsAfterLine(m, Head(lines)))

\* "ret[name] = arg" with the Argument of the line, or the panic of
\* ParseArgDecodeSteps: [panic, m].  An Argument is its Name, Type and
\* Decoding; EncWidth is the second result of the call, which
\* ParseArgDecodeSteps as given does not compute.
StoreArg(m, fields, decoding) ==
    IF decoding.panic THEN [panic |-> TRUE, m |-> m]
    ELSE [panic |-> FALSE,
          m |-> MapPut(m, fields[1], [Name     |-> fields[1],
                                      Type     |-> fields[3],
                                      Decoding |-> decoding.steps])]

\* the body of loadArgs's scan loop: acc = [panic, m], m being ret; nothing
\* runs after a panic
ArgsAfterLine(acc, fields) ==
    IF acc.panic \/ Len(fields) < 4 THEN acc
    ELSE StoreArg(acc.m, fields, ParseArgDecodeSteps(fields[2]))

RECURSIVE ArgsOfFile(_, _)
\* loadArgs: the scan loop over the lines the scanner delivers
ArgsOfFile(lines, acc) ==
    IF lines = <<>> THEN acc
    ELSE ArgsOfFile(Tail(lines), ArgsAfterLine(acc, Head(lines)))

\* "ret = append(ret, op)" for the outcome r of a line's loop body:
\* acc = [panic, ops]; nothing runs after a panic
AppendOperation(acc, r) ==
    IF acc.panic THEN acc
    ELSE IF r.kind = "panic" THEN [panic |-> TRUE, ops |-> acc.ops]
    ELSE IF r.kind = "op" THEN [panic |-> FALSE, ops |-> Append(acc.ops, r.op)]
    ELSE acc

RECURSIVE OperationsOfFile(_, _, _, _)
\* loadOperations: the scan loop over the lines the scanner delivers, up to
\* the sort
OperationsOfFile(lines, majorsTab, codecTab, acc) ==
    IF lines = <<>> THEN acc
    ELSE OperationsOfFile(Tail(lines), majorsTab, codecTab,
                          AppendOperation(acc, OperationOfLine(Head(lines), majorsTab,
                                                               codecTab)))

\* ret := make(map[string]*Argument) before the scan loop
NoArgs == [panic |-> FALSE, m |-> EmptyMap]
\* var ret []Operation before the scan loop
NoOps == [panic |-> FALSE, ops |-> <<>>]

\* no error returned by loadISAMeta
NoErr == ""

\* the loader calls of loadISAMeta with the operations loader ahead of the
\* codecs loader
LoaderOrder_operationsEarly ==
    <<"extensions", "opcode-majors", "opcodes", "codecs", "operands",
      "opcode-fullnames", "opcode-descriptions", "opcode-pseudocode-alt",
      "compression">>

\* the loader calls of loadISAMeta, by the file each one reads
LoaderOrder ==
    <<"extensions", "opcode-majors", "codecs", "operands", "opcode-fullnames",
      "opcode-descriptions", "opcode-pseudocode-alt", "opcodes", "compression">>

\* where loadISAMeta goes on after the loader of resource r returned no
\* error: the next loader call, or the "return &ISA{...}, nil"
After(r) ==
    LET i == CHOOSE j \in DOMAIN LoaderOrder : LoaderOrder[j] = r
    IN IF i = Len(LoaderOrder) THEN "done" ELSE LoaderOrder[i + 1]

\* the loaders that end with "return ret, nil" whatever sc.Err() holds
\* (loadMajorOpcodes, loadArgs, loadExpansions); the others end with
\* "return ret, sc.Err()"
DropsScanErr == {"opcode-majors", "operands", "compression"}

\* what a loader can meet in a file of these lines: os.Open fails; or the
\* scanner delivers the first k lines and stops on a read error; or it
\* delivers every line and stops at the end of the file
Outcomes(file) ==
    {[opened |-> FALSE, lines |-> <<>>, readErr |-> FALSE]} \cup
    {[opened |-> TRUE, lines |-> SubSeq(file, 1, k), readErr |-> TRUE] :
        k \in 0..(Len(file) - 1)} \cup
    {[opened |-> TRUE, lines |-> file, readErr |-> FALSE]}

\* the loader of resource r returns a non-nil error on outcome o
LoaderFails(r, o) == ~o.opened \/ (o.readErr /\ r \notin DropsScanErr)

----------------------------------------------------------------------------
(* Lines of the spec files *)

\* lines of the opcode-majors file
MajorLines ==
    {
      \* 6..2=0 1..0=3 LOAD
      <<<<"6", ".", ".", "2", "=", "0">>,
        <<"1", ".", ".", "0", "=", "3">>,
        <<"L", "O", "A", "D">>>>,
      \* 6..2=4 1..0=3 OP_IMM
      <<<<"6", ".", ".", "2", "=", "4">>,
        <<"1", ".", ".", "0", "=", "3">>,
        <<"O", "P", "_", "I", "M", "M">>>>,
      \* 6..2=12 OP
      <<<<"6", ".", ".", "2", "=", "1", "2">>,
        <<"O", "P">>>>,
      \* 6..2=4 1..0=3 reserved
      <<<<"6", ".", ".", "2", "=", "4">>,
        <<"1", ".", ".", "0", "=", "3">>,
        <<"r", "e", "s", "e", "r", "v", "e", "d">>>>,
      \* 6..2=x BAD
      <<<<"6", ".", ".", "2", "=", "x">>,
        <<"B", "A", "D">>>>,
      \* 7..0=255 WIDE
      <<<<"7", ".", ".", "0", "=", "2", "5", "5">>,
        <<"W", "I", "D", "E">>>>,
      \* JUNK
      <<<<"J", "U", "N", "K">>>> }

\* the codecs file, (codec, format, operands...) per line
CodecFiles ==
    { <<<<<<"r">>, <<"r">>, <<"r", "d">>, <<"r", "s", "1">>>>>>,
      <<<<<<"r">>, <<"r">>, <<"r", "d">>, <<"r", "s", "1">>>>,
        <<<<"i">>, <<"i">>, <<"r", "d">>, <<"i", "m", "m">>>>,
        <<<<"4", "r">>, <<"r">>>>,
        <<<<"n", "o", "n", "e">>>>>> }

\* lines of the opcodes file
OperationLines ==
    {
      \* add 31..25=0 6..2=12 1..0=3 r rv32i rv64i
      <<<<"a", "d", "d">>,
        <<"3", "1", ".", ".", "2", "5", "=", "0">>,
        <<"6", ".", ".", "2", "=", "1", "2">>,
        <<"1", ".", ".", "0", "=", "3">>,
        <<"r">>,
        <<"r", "v", "3", "2", "i">>,
        <<"r", "v", "6", "4", "i">>>>,
      \* addi rd 6..2=4 1..0=3 i rv32i
      <<<<"a", "d", "d", "i">>,
        <<"r", "d">>,
        <<"6", ".", ".", "2", "=", "4">>,
        <<"1", ".", ".", "0", "=", "3">>,
        <<"i">>,
        <<"r", "v", "3", "2", "i">>>>,
      \* c.nop 15..13=0 1..0=1 r rv32c
      <<<<"c", ".", "n", "o", "p">>,
        <<"1", "5", ".", ".", "1", "3", "=", "0">>,
        <<"1", ".", ".", "0", "=", "1">>,
        <<"r">>,
        <<"r", "v", "3", "2", "c">>>>,
      \* lw 6..2=0 1..0=3 r rv32i bogus
      <<<<"l", "w">>,
        <<"6", ".", ".", "2", "=", "0">>,
        <<"1", ".", ".", "0", "=", "3">>,
        <<"r">>,
        <<"r", "v", "3", "2", "i">>,
        <<"b", "o", "g", "u", "s">>>>,
      \* add 6..2=x 1..0=3 r rv64i 7..0=255
      <<<<"a", "d", "d">>,
        <<"6", ".", ".", "2", "=", "x">>,
        <<"1", ".", ".", "0", "=", "3">>,
        <<"r">>,
        <<"r", "v", "6", "4", "i">>,
        <<"7", ".", ".", "0", "=", "2", "5", "5">>>>,
      \* sub 1..0=7 r rv128m
      <<<<"s", "u", "b">>,
        <<"1", ".", ".", "0", "=", "7">>,
        <<"r">>,
        <<"r", "v", "1", "2", "8", "m">>>>,
      \* part 1..0=3 r rv32i
      <<<<"p", "a", "r", "t">>,
        <<"1", ".", ".", "0", "=", "3">>,
        <<"r">>,
        <<"r", "v", "3", "2", "i">>>>,
      \* lui 6..0=55 r rv32x
      <<<<"l", "u", "i">>,
        <<"6", ".", ".", "0", "=", "5", "5">>,
        <<"r">>,
        <<"r", "v", "3", "2", "x">>>>,
      \* fence 6..2=3 1..0=3 r rv
      <<<<"f", "e", "n", "c", "e">>,
        <<"6", ".", ".", "2", "=", "3">>,
        <<"1", ".", ".", "0", "=", "3">>,
        <<"r">>,
        <<"r", "v">>>>,
      \* mul 6..2=12 1..0=3 rv32m
      <<<<"m", "u", "l">>,
        <<"6", ".", ".", "2", "=", "1", "2">>,
        <<"1", ".", ".", "0", "=", "3">>,
        <<"r", "v", "3", "2", "m">>>>,
      \* and 6..2=12 1..0=3 r i rv32i
      <<<<"a", "n", "d">>,
        <<"6", ".", ".", "2", "=", "1", "2">>,
        <<"1", ".", ".", "0", "=", "3">>,
        <<"r">>,
        <<"i">>,
        <<"r", "v", "3", "2", "i">>>>,
      \* li 1..0=1 4r r rv32c
      <<<<"l", "i">>,
        <<"1", ".", ".", "0", "=", "1">>,
        <<"4", "r">>,
        <<"r">>,
        <<"r", "v", "3", "2", "c">>>>,
      \* nop r
      <<<<"n", "o", "p">>,
        <<"r">>>> }

\* opcode-majors files read by loadISAMeta
MajorFiles ==
    { <<
      \* 6..2=12 1..0=3 OP
      <<<<"6", ".", ".", "2", "=", "1", "2">>,
        <<"1", ".", ".", "0", "=", "3">>,
        <<"O", "P">>>>,
      \* 6..2=4 1..0=3 OP_IMM
      <<<<"6", ".", ".", "2", "=", "4">>,
        <<"1", ".", ".", "0", "=", "3">>,
        <<"O", "P", "_", "I", "M", "M">>>> >>,
      <<
      \* 6..2=0 1..0=3 LOAD
      <<<<"6", ".", ".", "2", "=", "0">>,
        <<"1", ".", ".", "0", "=", "3">>,
        <<"L", "O", "A", "D">>>>,
      \* 6..2=4 1..0=3 reserved
      <<<<"6", ".", ".", "2", "=", "4">>,
        <<"1", ".", ".", "0", "=", "3">>,
        <<"r", "e", "s", "e", "r", "v", "e", "d">>>>,
      \* 6..2=12 OP
      <<<<"6", ".", ".", "2", "=", "1", "2">>,
        <<"O", "P">>>> >> }

\* operands files, (name, descriptor, type, local name) per line
ArgFiles ==
    { <<
      \* rd 11:7 ireg rd
      <<<<"r", "d">>,
        <<"1", "1", ":", "7">>,
        <<"i", "r", "e", "g">>,
        <<"r", "d">>>>,
      \* bad x:3 ireg bad
      <<<<"b", "a", "d">>,
        <<"x", ":", "3">>,
        <<"i", "r", "e", "g">>,
        <<"b", "a", "d">>>> >>,
      <<
      \* simm12 31:20 simm32 imm
      <<<<"s", "i", "m", "m", "1", "2">>,
        <<"3", "1", ":", "2", "0">>,
        <<"s", "i", "m", "m", "3", "2">>,
        <<"i", "m", "m">>>>,
      \* short 11:7 ireg
      <<<<"s", "h", "o", "r", "t">>,
        <<"1", "1", ":", "7">>,
        <<"i", "r", "e", "g">>>>,
      \* simm12 31:25[11:5],11:7[4:0] simm32 imm
      <<<<"s", "i", "m", "m", "1", "2">>,
        <<"3", "1", ":", "2", "5", "[", "1", "1", ":", "5", "]", ",", "1", "1", ":", "7", "[", "4", ":", "0", "]">>,
        <<"s", "i", "m", "m", "3", "2">>,
        <<"i", "m", "m">>>> >>,
      <<
      \* rs1 19:15 ireg rs1
      <<<<"r", "s", "1">>,
        <<"1", "9", ":", "1", "5">>,
        <<"i", "r", "e", "g">>,
        <<"r", "s", "1">>>>,
      \* cut 31:25[ simm32 imm
      <<<<"c", "u", "t">>,
        <<"3", "1", ":", "2", "5", "[">>,
        <<"s", "i", "m", "m", "3", "2">>,
        <<"i", "m", "m">>>> >> }

\* opcodes files read by loadISAMeta
OperationFiles ==
    { <<
      \* addi rd 6..2=4 1..0=3 i rv32i
      <<<<"a", "d", "d", "i">>,
        <<"r", "d">>,
        <<"6", ".", ".", "2", "=", "4">>,
        <<"1", ".", ".", "0", "=", "3">>,
        <<"i">>,
        <<"r", "v", "3", "2", "i">>>>,
      \* add 31..25=0 6..2=12 1..0=3 r rv32i rv64i
      <<<<"a", "d", "d">>,
        <<"3", "1", ".", ".", "2", "5", "=", "0">>,
        <<"6", ".", ".", "2", "=", "1", "2">>,
        <<"1", ".", ".", "0", "=", "3">>,
        <<"r">>,
        <<"r", "v", "3", "2", "i">>,
        <<"r", "v", "6", "4", "i">>>> >>,
      <<
      \* lw 6..2=0 1..0=3 r rv32i
      <<<<"l", "w">>,
        <<"6", ".", ".", "2", "=", "0">>,
        <<"1", ".", ".", "0", "=", "3">>,
        <<"r">>,
        <<"r", "v", "3", "2", "i">>>>,
      \* add 6..2=12 1..0=3 r rv64i
      <<<<"a", "d", "d">>,
        <<"6", ".", ".", "2", "=", "1", "2">>,
        <<"1", ".", ".", "0", "=", "3">>,
        <<"r">>,
        <<"r", "v", "6", "4", "i">>>>,
      \* fence 6..2=3 1..0=3 r rv
      <<<<"f", "e", "n", "c", "e">>,
        <<"6", ".", ".", "2", "=", "3">>,
        <<"1", ".", ".", "0", "=", "3">>,
        <<"r">>,
        <<"r", "v">>>> >> }

\* a file of the extensions, opcode-fullnames, opcode-descriptions,
\* opcode-pseudocode-alt or compression resource: its lines, by number
TextFile == <<1, 2>>

----------------------------------------------------------------------------
(* Values of the variables a specification does not use *)

NoStd == [panic |-> FALSE, std |-> Invalid]

MatchIdle == field = NoField /\ rawSpec = <<>> /\ matchOut = NoMatch
ArgIdle == desc = <<>> /\ raw = <<>> /\ steps = <<>> /\ inst = {} /\ decoded = {}
StdIdle == stdIn = <<>> /\ stdOut = NoStd
LoadIdle == line = <<>> /\ nread = 0 /\ majors = EmptyMap /\ codecs = EmptyMap /\ ret = <<>>
IsaIdle == args = EmptyMap /\ got = EmptyMap /\ err = NoErr

matchVars == <<field, rawSpec, matchOut>>
argVars == <<desc, raw, steps, inst, decoded>>
stdVars == <<stdIn, stdOut>>
loadVars == <<line, nread, majors, codecs, ret>>
isaVars == <<args, got, err>>

----------------------------------------------------------------------------
(* Specification SpecMatch: parseMatchSpec applied to one token *)

InitMatch ==
    /\ pc = "match"
    /\ \/ \E e \in 0..MaxBitPos, s \in 0..MaxBitPos, v \in 0..MaxVal :
              /\ field = [end |-> e, start |-> s, value |-> v]
              /\ rawSpec = MkSpec(e, s, v)
       \/ /\ field = NoField
          /\ rawSpec \in MalformedSpecs \cup {HexSpec, OctalSpec}
    /\ matchOut = NoMatch
    /\ ArgIdle /\ StdIdle /\ LoadIdle /\ IsaIdle

DoParseMatchSpec ==
    /\ pc = "match"
    /\ matchOut' = parseMatchSpec(rawSpec)
    /\ pc' = "matched"
    /\ UNCHANGED <<field, rawSpec, argVars, stdVars, loadVars, isaVars>>

NextMatch == DoParseMatchSpec

SpecMatch == InitMatch /\ [][NextMatch]_vars

----------------------------------------------------------------------------
(* Specification SpecArg: ParseArgDecodeSteps applied to one descriptor,   *)
(* then the generated decoder applied to one instruction word              *)

InitArg ==
    /\ pc = "arg"
    /\ \/ /\ desc \in ContigDescs \cup GeneratedSplitDescs \cup NarrowSplitDescs
                       \cup RiscvDescs
          /\ raw = FmtDesc(desc)
       \/ /\ desc = <<>>
          /\ raw \in MalformedDescs
    /\ inst \in InstWords
    /\ steps = <<>>
    /\ decoded = {}
    /\ MatchIdle /\ StdIdle /\ LoadIdle /\ IsaIdle

DoParseArgDecodeSteps ==
    /\ pc = "arg"
    /\ LET r == ParseArgDecodeSteps(raw)
       IN /\ steps' = r.steps
          /\ pc' = IF r.panic THEN "panic" ELSE "steps"
    /\ UNCHANGED <<desc, raw, inst, decoded, matchVars, stdVars, loadVars, isaVars>>

DoDecode ==
    /\ pc = "steps"
    /\ decoded' = Decode(steps, inst)
    /\ pc' = "decoded"
    /\ UNCHANGED <<desc, raw, steps, inst, matchVars, stdVars, loadVars, isaVars>>

NextArg == DoParseArgDecodeSteps \/ DoDecode

SpecArg == InitArg /\ [][NextArg]_vars

----------------------------------------------------------------------------
(* Specification SpecStd: ParseStandard applied to one token *)

InitStd ==
    /\ pc = "std"
    /\ stdIn \in StdInputs
    /\ stdOut = NoStd
    /\ MatchIdle /\ ArgIdle /\ LoadIdle /\ IsaIdle

DoParseStandard ==
    /\ pc = "std"
    /\ stdOut' = ParseStandard(stdIn)
    /\ pc' = IF stdOut'.panic THEN "panic" ELSE "parsed"
    /\ UNCHANGED <<stdIn, matchVars, argVars, loadVars, isaVars>>

NextStd == DoParseStandard

SpecStd == InitStd /\ [][NextStd]_vars

----------------------------------------------------------------------------
(* Specification Spec: loadISAMeta reading the opcode-majors file, the     *)
(* codecs file and the opcodes file in turn                                *)

Init ==
    /\ pc = "opcode-majors"
    /\ line = <<>>
    /\ nread = 0
    /\ majors = EmptyMap
    /\ codecs = EmptyMap
    /\ ret = <<>>
    /\ MatchIdle /\ ArgIdle /\ StdIdle /\ IsaIdle

\* loadMajorOpcodes: sc.Scan() returns a line
LoadMajorLine ==
    /\ pc = "opcode-majors"
    /\ nread < MaxMajorLines
    /\ \E l \in MajorLines :
          /\ line' = l
          /\ majors' = MajorsAfterLine(majors, l)
    /\ nread' = nread + 1
    /\ UNCHANGED <<pc, codecs, ret, matchVars, argVars, stdVars, isaVars>>

\* loadMajorOpcodes: sc.Scan() returns false and the table is returned
MajorsEOF ==
    /\ pc = "opcode-majors"
    /\ pc' = "codecs"
    /\ line' = <<>>
    /\ nread' = 0
    /\ UNCHANGED <<majors, codecs, ret, matchVars, argVars, stdVars, isaVars>>

\* loadCodecs
LoadCodecs ==
    /\ pc = "codecs"
    /\ \E file \in CodecFiles : codecs' = CodecsOfFile(file, EmptyMap)
    /\ pc' = "opcodes"
    /\ UNCHANGED <<line, nread, majors, ret, matchVars, argVars, stdVars, isaVars>>

\* loadOperations: sc.Scan() returns a line
LoadOperationLine ==
    /\ pc = "opcodes"
    /\ nread < MaxOpLines
    /\ \E l \in OperationLines :
          LET r == OperationOfLine(l, majors, codecs)
          IN /\ line' = l
             /\ ret' = IF r.kind = "op" THEN Append(ret, r.op) ELSE ret
             /\ pc' = IF r.kind = "panic" THEN "panic" ELSE pc
    /\ nread' = nread + 1
    /\ UNCHANGED <<majors, codecs, matchVars, argVars, stdVars, isaVars>>

\* loadOperations: sc.Scan() returns false, ret is sorted and returned
OperationsEOF ==
    /\ pc = "opcodes"
    /\ ret' \in SortedByName(ret)
    /\ pc' = "done"
    /\ line' = <<>>
    /\ nread' = 0
    /\ UNCHANGED <<majors, codecs, matchVars, argVars, stdVars, isaVars>>

Next ==
    \/ LoadMajorLine
    \/ MajorsEOF
    \/ LoadCodecs
    \/ LoadOperationLine
    \/ OperationsEOF

Spec == Init /\ [][Next]_vars

----------------------------------------------------------------------------
(* Specification SpecISA: loadISAMeta, one step per loader call.  A loader *)
(* call meets one of the Outcomes of the file it is given; got records the *)
(* outcome (the table a loader builds is a function of the lines its       *)
(* scanner delivered).  The tables of extensions, of the three string      *)
(* files and of compression are not read by any other loader step modelled *)
(* here and are left to got.  pc is the resource of the loader called      *)
(* next, "done" after "return &ISA{...}, nil", "failed" after a            *)
(* "return nil, fmt.Errorf(...)", "panic" after a run-time panic.          *)

InitISA ==
    /\ pc = LoaderOrder[1]
    /\ MatchIdle /\ ArgIdle /\ StdIdle /\ LoadIdle /\ IsaIdle

\* "x, err := load...(r); if err != nil { return nil, fmt.Errorf(...) }":
\* the error names the resource the failing loader was reading
ISAStep(r, o) ==
    /\ got' = MapPut(got, r, o)
    /\ pc' = IF LoaderFails(r, o) THEN "failed" ELSE After(r)
    /\ err' = IF LoaderFails(r, o) THEN r ELSE err

\* a loader call that panics: loadISAMeta does not return
ISAPanic(r, o) ==
    /\ got' = MapPut(got, r, o)
    /\ pc' = "panic"
    /\ err' = err

\* extNames, err := loadExtensionNames("extensions")
ISALoadExtensionNames ==
    /\ pc = "extensions"
    /\ \E o \in Outcomes(TextFile) : ISAStep("extensions", o)
    /\ UNCHANGED <<line, nread, majors, codecs, ret, args, matchVars, argVars, stdVars>>

\* majorOpcodes, err := loadMajorOpcodes("opcode-majors")
ISALoadMajorOpcodes ==
    /\ pc = "opcode-majors"
    /\ \E file \in MajorFiles :
          \E o \in Outcomes(file) :
             /\ majors' = IF o.opened THEN MajorsOfFile(o.lines, EmptyMap) ELSE EmptyMap
             /\ ISAStep("opcode-majors", o)
    /\ UNCHANGED <<line, nread, codecs, ret, args, matchVars, argVars, stdVars>>

\* codecs, err := loadCodecs("codecs")
ISALoadCodecs ==
    /\ pc = "codecs"
    /\ \E file \in CodecFiles :
          \E o \in Outcomes(file) :
             /\ codecs' = IF LoaderFails("codecs", o) THEN EmptyMap
                           ELSE CodecsOfFile(o.lines, EmptyMap)
             /\ ISAStep("codecs", o)
    /\ UNCHANGED <<line, nread, majors, ret, args, matchVars, argVars, stdVars>>

\* args, err := loadArgs("operands")
ISALoadArgs ==
    /\ pc = "operands"
    /\ \E file \in ArgFiles :
          \E o \in Outcomes(file) :
             \E r \in {ArgsOfFile(o.lines, NoArgs)} :
                IF r.panic
                THEN args' = args /\ ISAPanic("operands", o)
                ELSE /\ args' = IF o.opened THEN r.m ELSE EmptyMap
                     /\ ISAStep("operands", o)
    /\ UNCHANGED <<line, nread, majors, codecs, ret, matchVars, argVars, stdVars>>

\* opFullNames, opDescs, opPseudocode: loadOpcodeStrings(...)
ISALoadOpcodeStrings ==
    /\ pc \in {"opcode-fullnames", "opcode-descriptions", "opcode-pseudocode-alt"}
    /\ \E o \in Outcomes(TextFile) : ISAStep(pc, o)
    /\ UNCHANGED <<line, nread, majors, codecs, ret, args, matchVars, argVars, stdVars>>

\* ops, err := loadOperations("opcodes", majorOpcodes, codecs, ...)
ISALoadOperations ==
    /\ pc = "opcodes"
    /\ \E file \in OperationFiles :
          \E o \in Outcomes(file) :
             \E r \in {OperationsOfFile(o.lines, majors, codecs, NoOps)} :
                IF r.panic
                THEN ret' = ret /\ ISAPanic("opcodes", o)
                ELSE /\ IF LoaderFails("opcodes", o) THEN ret' = <<>>
                        ELSE ret' \in SortedByName(r.ops)
                     /\ ISAStep("opcodes", o)
    /\ UNCHANGED <<line, nread, majors, codecs, args, matchVars, argVars, stdVars>>

\* exps, err := loadExpansions("compression"), then return &ISA{...}, nil
ISALoadExpansions ==
    /\ pc = "compression"
    /\ \E o \in Outcomes(TextFile) : ISAStep("compression", o)
    /\ UNCHANGED <<line, nread, majors, codecs, ret, args, matchVars, argVars, stdVars>>

NextISA ==
    \/ ISALoadExtensionNames
    \/ ISALoadMajorOpcodes
    \/ ISALoadCodecs
    \/ ISALoadArgs
    \/ ISALoadOpcodeStrings
    \/ ISALoadOperations
    \/ ISALoadExpansions

SpecISA == InitISA /\ [][NextISA]_vars

----------------------------------------------------------------------------
(* Claims about parseMatchSpec, checked under SpecMatch *)

\* the token is "<end>..<start>=<value>" with 0 <= start <= end <= 31
InWord == field # NoField /\ field.start <= field.end /\ field.end <= Width32 - 1

\* C1: for every well-formed token "<end>..<start>=<value>" with
\* 0 <= start <= end <= 31, parseMatchSpec returns the mask with exactly the
\* bits start..end set (also for end = 31) and the test value << start
\* truncated to 32 bits; a value written in hexadecimal is read as such.
C1_MaskAndTest ==
    pc = "matched" =>
        /\ InWord =>
              /\ matchOut.mask = field.start..field.end
              /\ matchOut.val = {b + field.start : b \in BitsOf(field.value)} \cap Word32
        /\ rawSpec = HexSpec =>
              /\ matchOut.mask = 2..6
              /\ matchOut.val = {2, 3, 5, 6}

\* C1 witness: the token "31..28=5" has been compiled to mask bits 28..31
\* and test bits {28, 30}
C1_Witness ==
    /\ pc = "matched"
    /\ rawSpec = MkSpec(31, 28, 5)
    /\ matchOut.mask = 28..31
    /\ matchOut.val = {28, 30}

\* C2 as stated: every token with end >= start gets a test with no bit
\* outside its mask, whatever value is written after "="
C2_TestWithinMask_AnyValue ==
    (pc = "matched" /\ field # NoField /\ field.start <= field.end) =>
        matchOut.val \subseteq matchOut.mask

\* the value fits in the end-start+1 bits of the field
ValueFits == BitsOf(field.value) \subseteq 0..(field.end - field.start)

\* C2 amended: every token with end >= start whose value fits in the
\* end-start+1 bits of its field gets a test with no bit outside its mask
C2_TestWithinMask ==
    (pc = "matched" /\ field # NoField /\ field.start <= field.end /\ ValueFits) =>
        matchOut.val \subseteq matchOut.mask

\* C2 witness: "6..2=8" has been compiled to test bit 5 inside mask bits 2..6
C2_Witness ==
    /\ pc = "matched"
    /\ field = [end |-> 6, start |-> 2, value |-> 8]
    /\ ValueFits
    /\ matchOut.val = {5}
    /\ matchOut.mask = 2..6

----------------------------------------------------------------------------
(* Claims about ParseArgDecodeSteps, checked under SpecArg *)

\* the bits of word in bottom..top, moved down so that bottom lands on dest
Moved(word, top, bottom, dest) == {dest + (b - bottom) : b \in word \cap (bottom..top)}

RECURSIVE ChunksValue(_, _, _)
\* what a split field denotes: each chunk takes the next top-bottom+1 source
\* bits below srcTop and holds them in destination bits bottom..top
ChunksValue(chunks, srcTop, word) ==
    IF chunks = <<>> THEN {}
    ELSE LET c     == Head(chunks)
             width == c.top - c.bottom
         IN Moved(word, srcTop, srcTop - width, c.bottom)
            \cup ChunksValue(Tail(chunks), srcTop - (width + 1), word)

\* what one sub-descriptor denotes
PartValue(part, word) ==
    IF part.chunks = <<>> THEN Moved(word, part.src.top, part.src.bottom, 0)
    ELSE ChunksValue(part.chunks, part.src.top, word)

IsSplit(d) == d # <<>> /\ \E i \in DOMAIN d : d[i].chunks # <<>>
IsContig(d) == Len(d) = 1 /\ d[1].chunks = <<>>

\* C3 as stated: the steps synthesized for a descriptor with split fields,
\* applied to any word and OR-ed, put every consumed source slice into the
\* destination bits destBottom..destTop of its chunk and set no other bit
C3_SplitReconstructs ==
    (pc = "decoded" /\ IsSplit(desc)) =>
        decoded = UNION {PartValue(desc[i], inst) : i \in DOMAIN desc}

\* C4: a contiguous sub-descriptor "top:bottom" with 0 <= bottom <= top <= 31
\* yields exactly one step, Mask = bits bottom..top and RightShift = bottom,
\* the bare "n" yields the step of "n:n", and the step applied to any word
\* gives the field right-justified at bit 0
C4_ContigStep ==
    (pc \in {"steps", "decoded"} /\ IsContig(desc)) =>
        /\ steps = <<[Mask |-> desc[1].src.bottom..desc[1].src.top,
                      RightShift |-> desc[1].src.bottom]>>
        /\ pc = "decoded" =>
              decoded = Moved(inst, desc[1].src.top, desc[1].src.bottom, 0)

\* C4 witness: the bare descriptor "5" has produced the one step (bit 5, >> 5)
\* and the decoder has turned the word with bit 5 set into 1
C4_Witness ==
    /\ pc = "decoded"
    /\ desc = <<Contig(Bare(5))>>
    /\ raw = <<"5">>
    /\ steps = <<[Mask |-> {5}, RightShift |-> 5]>>
    /\ inst = {5}
    /\ decoded = {0}

----------------------------------------------------------------------------
(* Claims about ParseStandard, checked under SpecStd *)

\* the token is "rv", then 32, 64 or 128, then one extension letter in
\* either case
ValidStdShape(s) ==
    \E size \in {RV32, RV64, RV128}, c \in ExtLetters :
        \/ s = <<"r", "v">> \o DecStr(size) \o <<c>>
        \/ s = <<"r", "v">> \o DecStr(size) \o <<LowerChar(c)>>

\* C8 as stated: for every input that is not "rv", a size 32, 64 or 128 and
\* one extension letter, ParseStandard returns Invalid and does not fail
C8_InvalidOtherwise ==
    (pc \in {"parsed", "panic"} /\ ~ValidStdShape(stdIn)) =>
        (pc = "parsed" /\ stdOut.std = Invalid)

----------------------------------------------------------------------------
(* Claims about the loaders, checked under Spec *)

\* the step appended an Operation to ret (only LoadOperationLine does)
Appended == Len(ret') = Len(ret) + 1
\* the position in fields of the first codec name after the operation name
CodecIndex(fields) == Min({i \in 2..Len(fields) : fields[i] \in DOMAIN codecs})
\* sorting keeps the operations: the returned list holds the appended ones
SortKeeps ==
    (pc = "opcodes" /\ pc' = "done") =>
        /\ Len(ret') = Len(ret)
        /\ Range(ret') = Range(ret)

\* C5 as stated: an Operation's MajorOpcode is non-nil exactly when its Mask
\* covers bits 0..6, whatever the major-opcode table holds
C5_MajorIffMaskCovers ==
    \A i \in DOMAIN ret :
        (~ret[i].MajorOpcode.nil) <=> (MajorBits \subseteq ret[i].Mask)

\* C5 amended: an Operation's MajorOpcode is non-nil exactly when its Mask
\* covers bits 0..6 and the major-opcode table has an entry under the key
\* Test & 0b1111111, and it is then that entry
C5_MajorIffCoveredAndKnown ==
    \A i \in DOMAIN ret :
        LET key == ret[i].Test \cap MajorBits
        IN /\ (~ret[i].MajorOpcode.nil) <=>
                  (MajorBits \subseteq ret[i].Mask /\ key \in DOMAIN majors)
           /\ (~ret[i].MajorOpcode.nil) =>
                  (ret[i].MajorOpcode = majors[key] /\ ret[i].MajorOpcode.Num = key)

\* C5 witness: loadOperations has returned "add" with the major opcode OP
\* (0b0110011) attached and "lui", whose Mask covers bits 0..6, without one
C5_Witness ==
    /\ pc = "done"
    /\ \E i \in DOMAIN ret :
          /\ ret[i].Name = <<"a", "d", "d">>
          /\ MajorBits \subseteq ret[i].Mask
          /\ ~ret[i].MajorOpcode.nil
          /\ ret[i].MajorOpcode.Name = <<"O", "P">>
          /\ ret[i].MajorOpcode.Num = {0, 1, 4, 5}
    /\ \E j \in DOMAIN ret :
          /\ ret[j].Name = <<"l", "u", "i">>
          /\ MajorBits \subseteq ret[j].Mask
          /\ ret[j].MajorOpcode.nil

\* C6: for every token after the codec name that ParseStandard accepts
\* ("rv", a size 32, 64 or 128, one letter in either case), the appended
\* Operation's Standards has the parsed Standard and its Base, the size-only
\* Standard, and a Standard added for one token is still there after the
\* later tokens; the returned list holds the appended Operations
C6_StandardAndBase ==
    [][/\ Appended =>
            LET k  == CodecIndex(line')
                op == ret'[Len(ret')]
            IN \A i \in (k + 1)..Len(line') :
                 \A size \in {RV32, RV64, RV128}, c \in Range(UpperChars) :
                    line'[i] \in {<<"r", "v">> \o DecStr(size) \o <<c>>,
                                  <<"r", "v">> \o DecStr(size) \o <<LowerChar(c)>>}
                    => /\ Has(op.Standards, MakeStandard(size, Ord(c)))
                       /\ Has(op.Standards, size)
       /\ SortKeeps]_vars

\* C6 witness: the line "add ... r rv32i rv64i" has given an Operation whose
\* Standards holds RV32I, RV32, RV64I and RV64
C6_Witness ==
    /\ pc = "opcodes"
    /\ ret # <<>>
    /\ line[Len(line) - 1] = <<"r", "v", "3", "2", "i">>
    /\ line[Len(line)] = <<"r", "v", "6", "4", "i">>
    /\ ret[Len(ret)].Standards =
          {MakeStandard(RV32, Ord("I")), RV32, MakeStandard(RV64, Ord("I")), RV64}

\* C7 as stated: no Operation of the list has the Invalid Standard in its
\* Standards, whatever tokens follow the codec name
C7_NeverHasInvalid ==
    \A i \in DOMAIN ret : ~Has(ret[i].Standards, Invalid)

\* C9: the appended Operation's Test and Mask are the OR of the
\* parseMatchSpec results of exactly the fields between the name and the
\* first codec name; a malformed token among them adds (0, 0); no field
\* after the codec name adds anything; the returned list holds the appended
\* Operations
C9_TestMaskAccumulate ==
    [][/\ Appended =>
            LET k  == CodecIndex(line')
                op == ret'[Len(ret')]
            IN /\ op.Test = UNION {parseMatchSpec(line'[i]).val : i \in 2..(k - 1)}
               /\ op.Mask = UNION {parseMatchSpec(line'[i]).mask : i \in 2..(k - 1)}
               /\ op.Codec = codecs[line'[k]]
               /\ \A i \in 2..(k - 1) :
                     (line'[i] = <<"6", ".", ".", "2", "=", "x">> \/ ~IsDigit(line'[i][1]))
                         => parseMatchSpec(line'[i]) = NoMatch
       /\ SortKeeps]_vars

\* C9 witness: the line "add 6..2=x 1..0=3 r rv64i 7..0=255" has given an
\* Operation with Test = Mask = 0b11
C9_Witness ==
    /\ pc = "opcodes"
    /\ ret # <<>>
    /\ Len(line) = 6
    /\ line[2] = <<"6", ".", ".", "2", "=", "x">>
    /\ line[6] = <<"7", ".", ".", "0", "=", "2", "5", "5">>
    /\ ret[Len(ret)].Test = {0, 1}
    /\ ret[Len(ret)].Mask = {0, 1}

\* C10: every entry of the major-opcode table has bits 0 and 1 of Num set
\* and is stored under the key equal to its Num
C10_MajorLowBitsAndKey ==
    \A k \in DOMAIN majors :
        /\ {0, 1} \subseteq majors[k].Num
        /\ majors[k].Num = k
        /\ ~majors[k].nil

\* C10 witness: loadMajorOpcodes has returned a table in which BAD, whose
\* token is malformed, has replaced LOAD under the key 0b11
C10_Witness ==
    /\ pc = "codecs"
    /\ DOMAIN majors = {{0, 1}}
    /\ majors[{0, 1}].Name = <<"B", "A", "D">>
    /\ line = <<>>

----------------------------------------------------------------------------
(* Claims about the steps of split fields, checked under SpecArg *)

\* the descriptor is one split sub-descriptor "src[chunk|chunk|...]"
IsOneSplit(d) == Len(d) = 1 /\ d[1].chunks # <<>>

\* the destination bits of a step: its Mask moved by its shift
DestBits(step) == ApplyStep(step, step.Mask)

RECURSIVE SrcTopAt(_, _, _)
\* the source bit chunk i starts at when every earlier chunk has taken its
\* destTop - destBottom + 1 bits below srcTop
SrcTopAt(chunks, srcTop, i) ==
    IF i = 1 THEN srcTop
    ELSE SrcTopAt(chunks, srcTop, i - 1) - ((chunks[i - 1].top - chunks[i - 1].bottom) + 1)

RECURSIVE Consumed(_)
\* the source width the chunks take in all
Consumed(chunks) ==
    IF chunks = <<>> THEN 0
    ELSE (Head(chunks).top - Head(chunks).bottom) + 1 + Consumed(Tail(chunks))

\* C15 as stated: for every descriptor made of contiguous and split
\* sub-fields, the destination bits of any two steps of its Decoding (the
\* Mask of each moved by its shift) are disjoint
C15_DestRangesDisjoint ==
    (pc \in {"steps", "decoded"} /\ desc # <<>>) =>
        \A i, j \in DOMAIN steps :
            i < j => DestBits(steps[i]) \cap DestBits(steps[j]) = {}

\* C16 as stated: for every split descriptor the chunks take at most
\* srcTop + 1 source bits in all, no chunk's srcTop or srcBottom is below
\* bit 0, and every Mask emitted lies within bits 0..srcTop of the field
C16_SourceWithinField ==
    (pc \in {"steps", "decoded"} /\ IsOneSplit(desc)) =>
        LET chunks == desc[1].chunks
            srcTop == desc[1].src.top
        IN /\ Consumed(chunks) <= srcTop + 1
           /\ \A i \in DOMAIN chunks :
                 /\ SrcTopAt(chunks, srcTop, i) >= 0
                 /\ SrcTopAt(chunks, srcTop, i) - (chunks[i].top - chunks[i].bottom) >= 0
           /\ \A i \in DOMAIN steps : steps[i].Mask \subseteq 0..srcTop

\* C17 as stated: the chunks of a split field give one step each, left to
\* right; the step of chunk destTop:destBottom, width = destTop - destBottom,
\* has Mask = source bits (srcTop - width)..srcTop and shift
\* (srcTop - width) - destTop, and srcTop then goes down by width + 1, so the
\* Masks start at the initial srcTop and each ends right above the next; a
\* chunk that does not parse gives no step and takes no source bits
C17_SplitStepConstruction ==
    /\ (pc \in {"steps", "decoded"} /\ IsOneSplit(desc)) =>
          LET chunks == desc[1].chunks
              srcTop == desc[1].src.top
          IN /\ Len(steps) = Len(chunks)
             /\ \A i \in DOMAIN chunks :
                   LET top   == SrcTopAt(chunks, srcTop, i)
                       width == chunks[i].top - chunks[i].bottom
                   IN /\ steps[i].Mask = (top - width)..top
                      /\ steps[i].RightShift = (top - width) - chunks[i].top
             /\ Max(steps[1].Mask) = srcTop
             /\ \A i \in 1..(Len(steps) - 1) :
                   Min(steps[i].Mask) = Max(steps[i + 1].Mask) + 1
    /\ (pc \in {"steps", "decoded"}
          /\ raw = <<"3", "1", ":", "2", "5", "[", "x", "|", "1", "0", ":", "5", "]">>) =>
          steps = <<[Mask |-> 26..31, RightShift |-> 16]>>

----------------------------------------------------------------------------
(* Further claims about the loaders, checked under Spec *)

\* the name has a lower-case letter: strings.ToUpper(name) # name
HasLower(name) == \E i \in DOMAIN name : IsLower(name[i])

\* the fields of the line after the operation name that are keys of the
\* codec table
KnownCodecs(fields) == {i \in 2..Len(fields) : fields[i] \in DOMAIN codecs}

C14_UppercaseOnly ==
    [][(pc = "opcode-majors" /\ nread' = nread + 1 /\ Len(line') >= 2) =>
          LET name == line'[Len(line')]
          IN /\ HasLower(name) => majors' = majors
             /\ ~HasLower(name) =>
                   \E k \in DOMAIN majors' :
                      /\ majors'[k].Name = name
                      /\ DOMAIN majors' = (DOMAIN majors) \cup {k}
                      /\ \A j \in (DOMAIN majors) \ {k} : majors'[j] = majors[j]]_vars

\* C14 witness: the line "6..2=4 1..0=3 reserved" has been read after the
\* line of OP_IMM and the table still holds OP_IMM alone
C14_Witness ==
    /\ pc = "opcode-majors"
    /\ nread = 2
    /\ line[Len(line)] = <<"r", "e", "s", "e", "r", "v", "e", "d">>
    /\ DOMAIN majors = {{0, 1, 4}}
    /\ majors[{0, 1, 4}].Name = <<"O", "P", "_", "I", "M", "M">>

\* C18: a line with no field after the name that is a key of the codec table
\* adds nothing to the list; an appended Operation's Codec is the table
\* entry under the first such field, also when that field starts with a
\* digit; every Operation of the list has a Codec that is not nil and is an
\* entry of the codec table; the returned list holds the appended Operations
C18_CodecOfFirstKnownToken ==
    [][/\ (pc = "opcodes" /\ nread' = nread + 1) =>
            /\ KnownCodecs(line') = {} => ret' = ret
            /\ Appended =>
                  /\ KnownCodecs(line') # {}
                  /\ ret'[Len(ret')].Codec = codecs[line'[Min(KnownCodecs(line'))]]
       /\ \A i \in DOMAIN ret' :
            /\ ~ret'[i].Codec.nil
            /\ ret'[i].Codec.Name \in DOMAIN codecs
            /\ codecs[ret'[i].Codec.Name] = ret'[i].Codec
       /\ SortKeeps]_vars

\* C18 witness: with "4r" in the codec table, the line "li 1..0=1 4r r rv32c"
\* has given an Operation whose Codec is "4r", not the later "r"
C18_Witness ==
    /\ pc = "opcodes"
    /\ ret # <<>>
    /\ line[1] = <<"l", "i">>
    /\ line[3] \in DOMAIN codecs
    /\ ret[Len(ret)].Name = <<"l", "i">>
    /\ ret[Len(ret)].Codec.Name = <<"4", "r">>

\* C20 as stated: every entry of the major-opcode table has a Num of seven
\* bits (Num <= 0b1111111), so its key is one that Test & 0b1111111 can give
C20_SevenBitNum ==
    \A k \in DOMAIN majors :
        /\ majors[k].Num \subseteq MajorBits
        /\ k \subseteq MajorBits

----------------------------------------------------------------------------
(* Claims about loadISAMeta, checked under SpecISA *)

\* the loader of r could not open its file or met a read error
ReadFailed(r) == ~got[r].opened \/ got[r].readErr

\* the nine resources in the order the claim gives
FixedOrder ==
    <<"extensions", "opcode-majors", "codecs", "operands", "opcode-fullnames",
      "opcode-descriptions", "opcode-pseudocode-alt", "opcodes", "compression">>

\* the resources before position i of that order
Earlier(i) == {FixedOrder[j] : j \in 1..(i - 1)}

\* C11 as stated: no Argument of the operand table has an empty Decoding: a
\* descriptor that yields no step is reported, not stored
C11_NoEmptyDecoding ==
    \A n \in DOMAIN args : args[n].Decoding # <<>>

\* C12 as stated: once the loader of a resource could not open its file or
\* met a read error part-way, loadISAMeta has returned nil with an error
\* naming that resource; it goes on to no further loader and returns no
\* model
C12_FailedResourceAborts ==
    pc # "panic" =>
        \A r \in DOMAIN got : ReadFailed(r) => (pc = "failed" /\ err = r)

\* C19: loadISAMeta calls the loaders one after another in the order
\* extensions, opcode-majors, codecs, operands, opcode-fullnames,
\* opcode-descriptions, opcode-pseudocode-alt, opcodes, compression: when a
\* loader is about to run, exactly the earlier ones have run and none of
\* them returned an error; loadOperations runs with the tables
\* loadMajorOpcodes and loadCodecs returned and its list is the operations
\* of the opcodes file resolved against them; when a loader returns an
\* error, loadISAMeta returns it and calls no other loader
C19_FixedLoaderOrder ==
    [][/\ pc \notin {"failed", "panic", "done"}
       /\ \/ pc' \in {"failed", "panic"}
          \/ pc = "compression" /\ pc' = "done"
          \/ \E i \in 1..(Len(FixedOrder) - 1) :
                pc = FixedOrder[i] /\ pc' = FixedOrder[i + 1]
       /\ \A i \in DOMAIN FixedOrder :
             pc' = FixedOrder[i] =>
                /\ DOMAIN got' = Earlier(i)
                /\ \A r \in Earlier(i) : ~LoaderFails(r, got'[r])
                /\ err' = NoErr
       /\ pc' = "opcodes" =>
             /\ got'["opcode-majors"].opened /\ got'["codecs"].opened
             /\ majors' = MajorsOfFile(got'["opcode-majors"].lines, EmptyMap)
             /\ codecs' = CodecsOfFile(got'["codecs"].lines, EmptyMap)
       /\ pc = "opcodes" =>
             /\ majors' = majors /\ codecs' = codecs
             /\ pc' = "compression" =>
                   ret' \in SortedByName(
                       OperationsOfFile(got'["opcodes"].lines, majors, codecs, NoOps).ops)
       /\ pc' = "failed" =>
             /\ err' = pc
             /\ LoaderFails(pc, got'[pc])
             /\ DOMAIN got' = (DOMAIN got) \cup {pc}]_vars

\* C19 witness: loadISAMeta has returned the ISA after all nine loaders ran,
\* with "addi" resolved to the major opcode OP_IMM and the codec "i" of the
\* tables loaded before the opcodes file
C19_Witness ==
    /\ pc = "done"
    /\ err = NoErr
    /\ DOMAIN got = Range(FixedOrder)
    /\ {0, 1, 4} \in DOMAIN majors
    /\ <<"i">> \in DOMAIN codecs
    /\ \E i \in DOMAIN ret :
          /\ ret[i].Name = <<"a", "d", "d", "i">>
          /\ ret[i].MajorOpcode = majors[{0, 1, 4}]
          /\ ret[i].MajorOpcode.Name = <<"O", "P", "_", "I", "M", "M">>
          /\ ret[i].Codec = codecs[<<"i">>]

====
